---- MODULE Spec2Model ----
(***************************************************************************)
(* Model of población.py: a script that generates simulated benzene        *)
(* readings, writes them to a spreadsheet and bulk-loads them into the     *)
(* PostgreSQL table monitoreo_produccion.lecturas.                         *)
(*                                                                         *)
(* Conventions.  Text is a TLA+ string, built with \o.  A concentration    *)
(* (a float rounded to 2 decimals) is an integer number of hundredths of   *)
(* a ppm.  Coordinates, temperature and humidity are integers in the unit  *)
(* of their last drawn digit.  A datetime is a record of its fields.       *)
(***************************************************************************)
EXTENDS Integers, Sequences, FiniteSets, TLC

VARIABLES
    pc,             \* position of the script
    num_registros,  \* argument of generar_registros_simulados
    fecha_inicial,  \* argument of generar_registros_simulados
    instante,       \* local of generar_registros_simulados
    registros,      \* the list being built, then the module-level list
    archivos,       \* the files on disk: a set of [nombre, filas]
    conn,           \* "none" | "open" | "closed"
    cursor,         \* "none" | "open" | "closed"
    tx,             \* server-side transaction: "idle" | "intrans" | "inerror"
    txRows,         \* rows inserted by the open transaction, not yet committed
    tabla,          \* rows of monitoreo_produccion.lecturas committed by this run
    ref,            \* the four reference tables as the server holds them
    fk,             \* whether lecturas declares foreign keys on the four identifiers
    values,         \* local of insertar_en_postgres (empty before line 232)
    salida,         \* console output, one entry per print
    llamadas,       \* the database API calls made so far, in order
    fallo,          \* "none", or the phase whose exception ended the script
    ensayo          \* argument and result of a pure function under test

vars == << pc, num_registros, fecha_inicial, instante, registros, archivos, conn,
           cursor, tx, txRows, tabla, ref, fk, values, salida, llamadas, fallo, ensayo >>

(***************************************************************************)
(* Bounds of the model.                                                    *)
(***************************************************************************)
MaxRegistros == 3      \* num_registros ranges over 0..MaxRegistros
MaxCentesimas == 50150 \* clasificar_ppm is tried on -NegCentesimas..MaxCentesimas
NegCentesimas == 150

(***************************************************************************)
(* Configuration (lines 24-33).                                            *)
(***************************************************************************)
ID_SENSOR == "A1S01"
ID_MICRO == "A1M01"
ID_LINEA == "A1"
ID_FABRICA == "A"
FECHA_INICIAL ==
    [year |-> 2025, month |-> 1, day |-> 1, hour |-> 8, minute |-> 0, second |-> 0,
     microsecond |-> 0]

(***************************************************************************)
(* datetime: date(), time(), + timedelta(seconds), str().                  *)
(***************************************************************************)
IsLeap(y) == (y % 4 = 0) /\ ((y % 100 # 0) \/ (y % 400 = 0))

DaysInMonth(y, m) ==
    IF m = 2 THEN (IF IsLeap(y) THEN 29 ELSE 28)
    ELSE IF m \in {4, 6, 9, 11} THEN 30 ELSE 31

Date(dt) == [year |-> dt.year, month |-> dt.month, day |-> dt.day]

Time(dt) ==
    [hour |-> dt.hour, minute |-> dt.minute, second |-> dt.second,
     microsecond |-> dt.microsecond]

\* The day after (y, m, d); the year may leave the range, see Overflows.
NextDay(dt) ==
    IF dt.day < DaysInMonth(dt.year, dt.month) THEN [dt EXCEPT !.day = dt.day + 1]
    ELSE IF dt.month < 12 THEN [dt EXCEPT !.day = 1, !.month = dt.month + 1]
    ELSE [dt EXCEPT !.day = 1, !.month = 1, !.year = dt.year + 1]

\* dt + timedelta(seconds=s), for 0 <= s < 86400, before the range check.
AddSeconds(dt, s) ==
    LET t == dt.hour * 3600 + dt.minute * 60 + dt.second + s
        r == t % 86400
        d == IF t >= 86400 THEN NextDay(dt) ELSE dt
    IN  [d EXCEPT !.hour = r \div 3600, !.minute = (r % 3600) \div 60, !.second = r % 60]

\* datetime.__add__ raises OverflowError when the result is past datetime.max.
Overflows(dt) == dt.year > 9999

Pad(n, w) ==
    LET s == ToString(n)
        z == [k \in 0..6 |-> CASE k = 0 -> "" [] k = 1 -> "0" [] k = 2 -> "00"
                               [] k = 3 -> "000" [] k = 4 -> "0000"
                               [] k = 5 -> "00000" [] OTHER -> "000000"]
    IN  IF Len(s) >= w THEN s ELSE z[w - Len(s)] \o s

\* str(date): YYYY-MM-DD
StrDate(d) == Pad(d.year, 4) \o "-" \o Pad(d.month, 2) \o "-" \o Pad(d.day, 2)

\* str(time): HH:MM:SS, followed by .ffffff when microsecond is not 0
StrTime(t) ==
    Pad(t.hour, 2) \o ":" \o Pad(t.minute, 2) \o ":" \o Pad(t.second, 2)
        \o (IF t.microsecond = 0 THEN "" ELSE "." \o Pad(t.microsecond, 6))

\* str(float) of a value with at most two decimals, given in hundredths:
\* the shortest repr, which always keeps one digit after the point.
StrPpm(c) ==
    LET a == IF c < 0 THEN -c ELSE c
        f == a % 100
    IN  (IF c < 0 THEN "-" ELSE "") \o ToString(a \div 100) \o "."
            \o (IF f % 10 = 0 THEN ToString(f \div 10) ELSE Pad(f, 2))

(***************************************************************************)
(* clasificar_ppm (lines 39-55); the thresholds in hundredths of a ppm.    *)
(***************************************************************************)
\* The first comparison strict.
clasificar_ppm_estricto(ppm) ==
    IF ppm < 50 THEN 1
    ELSE IF ppm <= 100 THEN 2
    ELSE IF ppm <= 1000 THEN 3
    ELSE IF ppm <= 5000 THEN 4
    ELSE IF ppm <= 50000 THEN 5
    ELSE 6

clasificar_ppm(ppm) ==
    IF ppm <= 50 THEN 1
    ELSE IF ppm <= 100 THEN 2
    ELSE IF ppm <= 1000 THEN 3
    ELSE IF ppm <= 5000 THEN 4
    ELSE IF ppm <= 50000 THEN 5
    ELSE 6

(***************************************************************************)
(* generar_hash_integridad (lines 58-64).  MD5 is not computed: the digest *)
(* of s is the text md5(s), so that digests are equal exactly when the     *)
(* hashed strings are, and no digest is the empty string.                  *)
(***************************************************************************)
Md5Hex(s) == "md5(" \o s \o ")"

\* The sensor left out of the hashed string.
base_str_sin_sensor(row) ==
    StrDate(row.fecha) \o StrTime(row.hora) \o StrPpm(row.ppm_benceno)

base_str(row) ==
    StrDate(row.fecha) \o StrTime(row.hora) \o row.id_sensor \o StrPpm(row.ppm_benceno)

generar_hash_integridad(row) == Md5Hex(base_str(row))

(***************************************************************************)
(* generar_registros_simulados (lines 67-137).                             *)
(***************************************************************************)
\* The starting timestamps tried: the configured one, one before midnight,
\* one before a leap day, one before a new year (with microseconds), and one
\* ten seconds before datetime.max.
Inicios ==
    { FECHA_INICIAL,
      [FECHA_INICIAL EXCEPT !.hour = 23, !.minute = 59, !.second = 45],
      [year |-> 2024, month |-> 2, day |-> 28, hour |-> 23, minute |-> 59,
       second |-> 50, microsecond |-> 0],
      [year |-> 2025, month |-> 12, day |-> 31, hour |-> 23, minute |-> 59,
       second |-> 50, microsecond |-> 250],
      [year |-> 9999, month |-> 12, day |-> 31, hour |-> 23, minute |-> 59,
       second |-> 50, microsecond |-> 0] }

\* One iteration's results of random.uniform, after round() where the code
\* rounds: ppm in hundredths (0..8000), the three jitters in 1e-4 degrees and
\* metres, temperature and humidity in tenths.
Sorteos ==
    { [ppm |-> 50, lat |-> -100, lon |-> 100, alt |-> -10, temp |-> 180, hum |-> 900],
      [ppm |-> 51, lat |-> 0, lon |-> 0, alt |-> 0, temp |-> 215, hum |-> 400],
      [ppm |-> 5001, lat |-> 37, lon |-> -62, alt |-> 10, temp |-> 350, hum |-> 655] }

\* The dict of lines 108-127, hash_integridad still the placeholder "".
RowInicial(inst, id_sensor, id_micro, id_linea, id_fabrica, s) ==
    [fecha |-> Date(inst),
     hora |-> Time(inst),
     id_sensor |-> id_sensor,
     id_micro |-> id_micro,
     id_linea |-> id_linea,
     id_fabrica |-> id_fabrica,
     ppm_benceno |-> s.ppm,
     id_clasificacion |-> clasificar_ppm(s.ppm),
     geo_latitud |-> 62442 + s.lat,
     geo_longitud |-> -755812 + s.lon,
     geo_altitud |-> 1500 + s.alt,
     temperatura |-> s.temp,
     humedad |-> s.hum,
     estado_transmision |-> "O",
     timestamp_envio |-> inst,
     observaciones |-> "",
     hash_integridad |-> "",
     origen_formato |-> "simulacion_py"]

\* Line 130: the hash is stored into the finished dict.
ConHash(row) == [row EXCEPT !.hash_integridad = generar_hash_integridad(row)]

\* The hash taken before the concentration is stored.
NuevoRegistroHashPrevio(inst, s) ==
    [ConHash(RowInicial(inst, ID_SENSOR, ID_MICRO, ID_LINEA, ID_FABRICA,
                        [s EXCEPT !.ppm = 0]))
        EXCEPT !.ppm_benceno = s.ppm, !.id_clasificacion = clasificar_ppm(s.ppm)]

NuevoRegistro(inst, s) ==
    ConHash(RowInicial(inst, ID_SENSOR, ID_MICRO, ID_LINEA, ID_FABRICA, s))

\* Line 135.
Avanzar(inst) == AddSeconds(inst, 10)

\* One iteration of the loop of lines 82-135; the addition of line 135 may
\* raise, which ends the script before anything is returned.
GenerarIteracion ==
    /\ pc = "generar"
    /\ Len(registros) < num_registros
    /\ \E s \in Sorteos :
          registros' = Append(registros, NuevoRegistro(instante, s))
    /\ IF Overflows(Avanzar(instante))
       THEN /\ pc' = "abortado"
            /\ fallo' = "generar"
            /\ UNCHANGED instante
       ELSE /\ instante' = Avanzar(instante)
            /\ UNCHANGED << pc, fallo >>
    /\ UNCHANGED << num_registros, fecha_inicial, archivos, conn, cursor, tx, txRows,
                    tabla, ref, fk, values, salida, llamadas, ensayo >>

\* Lines 137 and 144-153: the list is returned and its length printed.
GenerarRetorno ==
    /\ pc = "generar"
    /\ Len(registros) = num_registros
    /\ pc' = "excel"
    /\ salida' = Append(salida, "Se generaron " \o ToString(Len(registros))
                                    \o " registros simulados.")
    /\ UNCHANGED << num_registros, fecha_inicial, instante, registros, archivos, conn,
                    cursor, tx, txRows, tabla, ref, fk, values, llamadas, fallo, ensayo >>

(***************************************************************************)
(* Spreadsheet export (lines 159-164).                                     *)
(***************************************************************************)
\* The keys of the dict of lines 108-127, in insertion order: the columns of
\* the DataFrame.
Columnas ==
    << "fecha", "hora", "id_sensor", "id_micro", "id_linea", "id_fabrica",
       "ppm_benceno", "id_clasificacion", "geo_latitud", "geo_longitud",
       "geo_altitud", "temperatura", "humedad", "estado_transmision",
       "timestamp_envio", "observaciones", "hash_integridad", "origen_formato" >>

FilaExcel(r) == [k \in 1..Len(Columnas) |-> r[Columnas[k]]]

nombre_archivo_excel == "lecturas-sensor_" \o ID_SENSOR \o ".xlsx"

\* pd.DataFrame(registros).to_excel(nombre, index=False): a header row and
\* one row per dict; a DataFrame of no dicts has no columns.
Hoja(regs) ==
    [nombre |-> nombre_archivo_excel,
     columnas |-> IF regs = << >> THEN << >> ELSE Columnas,
     filas |-> [k \in 1..Len(regs) |-> FilaExcel(regs[k])]]

ExportarExcel ==
    /\ pc = "excel"
    /\ archivos' = {a \in archivos : a.nombre # nombre_archivo_excel} \cup {Hoja(registros)}
    /\ salida' = Append(salida, "Archivo Excel generado: " \o nombre_archivo_excel)
    /\ pc' = "conectar"
    /\ UNCHANGED << num_registros, fecha_inicial, instante, registros, conn, cursor, tx,
                    txRows, tabla, ref, fk, values, llamadas, fallo, ensayo >>

\* The failed write swallowed, the script going on to the database.
ExportarFallaTragada ==
    /\ pc = "excel"
    /\ pc' = "conectar"
    /\ UNCHANGED << num_registros, fecha_inicial, instante, registros, archivos, conn,
                    cursor, tx, txRows, tabla, ref, fk, values, salida, llamadas, fallo,
                    ensayo >>

\* What a write that failed midway may leave under the name: a file
\* without a readable sheet.
Truncado == [nombre |-> nombre_archivo_excel, columnas |-> << >>, filas |-> << >>]

\* The write raises (no error handling around line 162): the script ends,
\* with no file or with a truncated one.
ExportarFalla ==
    /\ pc = "excel"
    /\ archivos' \in {archivos, archivos \cup {Truncado}}
    /\ pc' = "abortado"
    /\ fallo' = "excel"
    /\ UNCHANGED << num_registros, fecha_inicial, instante, registros, conn, cursor, tx,
                    txRows, tabla, ref, fk, values, salida, llamadas, ensayo >>

(***************************************************************************)
(* insertar_en_postgres (lines 170-260) and the server it talks to.        *)
(***************************************************************************)
Limit == 10

Tablas == << "sensor", "microcontrolador", "linea", "fabrica" >>

Configurado == << ID_SENSOR, ID_MICRO, ID_LINEA, ID_FABRICA >>

Etiquetas ==
    << "Sensores disponibles: ", "Microcontroladores disponibles: ",
       "Líneas disponibles: ", "Fábricas disponibles: " >>

Range(q) == {q[k] : k \in 1..Len(q)}

Existe(filas) == [existe |-> TRUE, filas |-> filas]

NoExiste == [existe |-> FALSE, filas |-> << >>]

\* The states of the four reference tables tried, in the server's scan order.
RefOpciones ==
    [sensor : { NoExiste, Existe(<< >>), Existe(<< ID_SENSOR >>),
                Existe(<< "B2S07", ID_SENSOR >>), Existe(<< "B2S07" >>),
                Existe(<< "S01", "S02", "S03", "S04", "S05", "S06", "S07", "S08",
                          "S09", "S10", ID_SENSOR >>) },
     microcontrolador : { Existe(<< ID_MICRO >>), Existe(<< "B2M01" >>) },
     linea : { Existe(<< ID_LINEA >>), Existe(<< >>) },
     fabrica : { Existe(<< ID_FABRICA >>), Existe(<< "B", "C" >>), NoExiste }]

\* A foreign key can only reference a table that exists.
ServidorPosible(r, f) == f => \A k \in 1..4 : r[Tablas[k]].existe

\* Lines 171-172.  The server is in whatever state the connection finds it.
Conectar ==
    /\ pc = "conectar"
    /\ \E r \in RefOpciones, f \in BOOLEAN :
          /\ ServidorPosible(r, f)
          /\ ref' = r
          /\ fk' = f
    /\ conn' = "open"
    /\ cursor' = "open"
    /\ llamadas' = llamadas \o << "connect", "cursor" >>
    /\ pc' = "validar"
    /\ UNCHANGED << num_registros, fecha_inicial, instante, registros, archivos, tx,
                    txRows, tabla, values, salida, fallo, ensayo >>

\* psycopg2.connect raises: nothing catches it.
ConectarFalla ==
    /\ pc = "conectar"
    /\ llamadas' = Append(llamadas, "connect")
    /\ pc' = "abortado"
    /\ fallo' = "conectar"
    /\ UNCHANGED << num_registros, fecha_inicial, instante, registros, archivos, conn,
                    cursor, tx, txRows, tabla, ref, fk, values, salida, ensayo >>

\* SELECT ... LIMIT 10 followed by fetchall(), first column of each row.
Fetch(r, k) ==
    LET f == r[Tablas[k]].filas
    IN  SubSeq(f, 1, IF Len(f) < Limit THEN Len(f) ELSE Limit)

\* The f-string of a list of str: ['a', 'b'].
RECURSIVE Joined(_)
Joined(q) ==
    IF q = << >> THEN ""
    ELSE IF Len(q) = 1 THEN "'" \o q[1] \o "'"
    ELSE "'" \o q[1] \o "', " \o Joined(Tail(q))

StrList(q) == "[" \o Joined(q) \o "]"

\* The alternative named by a warning (lines 195, 197, 199, 201).
Primero(q) == IF q # << >> THEN q[1] ELSE "NINGUNO"

Advertencia(k, q) ==
    "ADVERTENCIA: " \o Configurado[k] \o " no existe en la tabla " \o Tablas[k]
        \o ". Usando el primero disponible: " \o Primero(q)

\* The first query that raises: the index of the first table that does not
\* exist, 5 when all four queries succeed.
PrimeraFalla(r) ==
    IF \E k \in 1..4 : ~r[Tablas[k]].existe
    THEN CHOOSE k \in 1..4 :
            /\ ~r[Tablas[k]].existe
            /\ \A j \in 1..(k - 1) : r[Tablas[j]].existe
    ELSE 5

\* What the try block of lines 175-205 prints.
SalidaValidar(r) ==
    LET n == PrimeraFalla(r)
        listas == [k \in 1..(n - 1) |-> Etiquetas[k] \o StrList(Fetch(r, k))]
        avisos == [k \in 1..4 |->
                      IF Configurado[k] \notin Range(Fetch(r, k))
                      THEN Advertencia(k, Fetch(r, k)) ELSE "<nada>"]
    IN  IF n = 5
        THEN listas \o << "" >> \o SelectSeq(avisos, LAMBDA w : w # "<nada>") \o << "" >>
        ELSE listas \o << "Error al consultar tablas relacionadas: no existe la relación "
                              \o Tablas[n],
                          "Continuando con la inserción...\n" >>

\* The cursor calls the try block makes.
LlamadasValidar(r) ==
    LET n == PrimeraFalla(r)
    IN  [k \in 1..(IF n = 5 THEN 4 ELSE n) |-> "execute SELECT " \o Tablas[k]]

\* No except clause: the failure of a query leaves the function.
ValidarSinExcept ==
    /\ pc = "validar"
    /\ llamadas' = llamadas \o LlamadasValidar(ref)
    /\ IF PrimeraFalla(ref) = 5
       THEN /\ salida' = salida \o SalidaValidar(ref)
            /\ tx' = "intrans"
            /\ pc' = "insertar"
            /\ UNCHANGED fallo
       ELSE /\ tx' = "inerror"
            /\ pc' = "abortado"
            /\ fallo' = "validar"
            /\ UNCHANGED salida
    /\ UNCHANGED << num_registros, fecha_inicial, instante, registros, archivos, conn,
                    cursor, txRows, tabla, ref, fk, values, ensayo >>

\* Lines 175-205 as a whole: the except clause swallows the failure of any
\* query, after which the server has put the transaction in the failed state.
Validar ==
    /\ pc = "validar"
    /\ salida' = salida \o SalidaValidar(ref)
    /\ llamadas' = llamadas \o LlamadasValidar(ref)
    /\ tx' = IF PrimeraFalla(ref) = 5 THEN "intrans" ELSE "inerror"
    /\ pc' = "insertar"
    /\ UNCHANGED << num_registros, fecha_inicial, instante, registros, archivos, conn,
                    cursor, txRows, tabla, ref, fk, values, fallo, ensayo >>

\* The column list of insert_query (lines 208-229).
ColumnasInsert ==
    << "fecha", "hora", "id_sensor", "id_micro", "id_linea", "id_fabrica",
       "ppm_benceno", "id_clasificacion", "geo_latitud", "geo_longitud",
       "geo_altitud", "temperatura", "humedad", "estado_transmision",
       "timestamp_envio", "observaciones", "hash_integridad", "origen_formato" >>

\* Two neighbouring elements of the tuple exchanged.
TuplaDesordenada(r) ==
    << r.fecha, r.hora, r.id_sensor, r.id_micro, r.id_linea, r.id_fabrica,
       r.ppm_benceno, r.geo_latitud, r.id_clasificacion, r.geo_longitud,
       r.geo_altitud, r.temperatura, r.humedad, r.estado_transmision,
       r.timestamp_envio, r.observaciones, r.hash_integridad, r.origen_formato >>

\* One tuple of the list of lines 232-254, in the column order of the INSERT.
Tupla(r) ==
    << r.fecha, r.hora, r.id_sensor, r.id_micro, r.id_linea, r.id_fabrica,
       r.ppm_benceno, r.id_clasificacion, r.geo_latitud, r.geo_longitud,
       r.geo_altitud, r.temperatura, r.humedad, r.estado_transmision,
       r.timestamp_envio, r.observaciones, r.hash_integridad, r.origen_formato >>

\* The sensor the warning names put into the rows.
ValuesSustituido(regs) ==
    [k \in 1..Len(regs) |->
        [Tupla(regs[k]) EXCEPT ![3] = IF ID_SENSOR \in Range(Fetch(ref, 1)) THEN @
                                      ELSE Primero(Fetch(ref, 1))]]

Values(regs) == [k \in 1..Len(regs) |-> Tupla(regs[k])]

\* With foreign keys declared, every identifier of every row must be in its
\* reference table (the whole table, not the 10 rows fetched).
FkOk(r, f, vals) ==
    f => \A j \in 1..Len(vals), k \in 1..4 : vals[j][2 + k] \in Range(r[Tablas[k]].filas)

\* Line 256, the statement succeeds.  execute_values sends nothing for an
\* empty list; otherwise the server accepts the one INSERT only in a
\* transaction that has not failed and when no row violates a foreign key.
InsertarOk ==
    /\ pc = "insertar"
    /\ values' = Values(registros)
    /\ \/ values' = << >>
       \/ tx # "inerror" /\ FkOk(ref, fk, values')
    /\ txRows' = IF tx = "inerror" THEN txRows ELSE txRows \o values'
    /\ llamadas' = Append(llamadas, "execute_values")
    /\ pc' = "commit"
    /\ UNCHANGED << num_registros, fecha_inicial, instante, registros, archivos, conn,
                    cursor, tx, tabla, ref, fk, salida, fallo, ensayo >>

\* One INSERT and one commit per row: the rows before the failing (last)
\* one stay.
InsertarFallaPorFila ==
    /\ pc = "insertar"
    /\ values' = Values(registros)
    /\ values' # << >>
    /\ tabla' = tabla \o SubSeq(values', 1, Len(values') - 1)
    /\ tx' = "inerror"
    /\ llamadas' = Append(llamadas, "execute_values")
    /\ pc' = "abortado"
    /\ fallo' = "insertar"
    /\ UNCHANGED << num_registros, fecha_inicial, instante, registros, archivos, conn,
                    cursor, txRows, ref, fk, salida, ensayo >>

\* The cursor and the connection closed on the failure path.
InsertarFallaConCierre ==
    /\ pc = "insertar"
    /\ values' = Values(registros)
    /\ values' # << >>
    /\ tx' = "idle"
    /\ cursor' = "closed"
    /\ conn' = "closed"
    /\ llamadas' = llamadas \o << "execute_values", "cursor.close", "conn.close" >>
    /\ pc' = "abortado"
    /\ fallo' = "insertar"
    /\ UNCHANGED << num_registros, fecha_inicial, instante, registros, archivos, txRows,
                    tabla, ref, fk, salida, ensayo >>

\* Line 256, the statement raises (failed transaction, foreign key, or any
\* other server error): the server keeps none of its rows, the exception
\* leaves the function and the script.
InsertarFalla ==
    /\ pc = "insertar"
    /\ values' = Values(registros)
    /\ values' # << >>
    /\ tx' = "inerror"
    /\ llamadas' = Append(llamadas, "execute_values")
    /\ pc' = "abortado"
    /\ fallo' = "insertar"
    /\ UNCHANGED << num_registros, fecha_inicial, instante, registros, archivos, conn,
                    cursor, txRows, tabla, ref, fk, salida, ensayo >>

\* Line 257.  COMMIT of a failed transaction rolls it back without an error.
Commit ==
    /\ pc = "commit"
    /\ tabla' = IF tx = "intrans" THEN tabla \o txRows ELSE tabla
    /\ txRows' = << >>
    /\ tx' = "idle"
    /\ llamadas' = Append(llamadas, "commit")
    /\ pc' = "cerrar_cursor"
    /\ UNCHANGED << num_registros, fecha_inicial, instante, registros, archivos, conn,
                    cursor, ref, fk, values, salida, fallo, ensayo >>

\* Line 257 raises (the connection is lost): nothing is committed.
CommitFalla ==
    /\ pc = "commit"
    /\ llamadas' = Append(llamadas, "commit")
    /\ pc' = "abortado"
    /\ fallo' = "commit"
    /\ UNCHANGED << num_registros, fecha_inicial, instante, registros, archivos, conn,
                    cursor, tx, txRows, tabla, ref, fk, values, salida, ensayo >>

\* Line 258.
CerrarCursor ==
    /\ pc = "cerrar_cursor"
    /\ cursor' = "closed"
    /\ llamadas' = Append(llamadas, "cursor.close")
    /\ pc' = "cerrar_conn"
    /\ UNCHANGED << num_registros, fecha_inicial, instante, registros, archivos, conn,
                    tx, txRows, tabla, ref, fk, values, salida, fallo, ensayo >>

\* Lines 259-260.
CerrarConn ==
    /\ pc = "cerrar_conn"
    /\ conn' = "closed"
    /\ llamadas' = Append(llamadas, "conn.close")
    /\ salida' = Append(salida, "Se insertaron " \o ToString(Len(registros))
                                    \o " registros en monitoreo_produccion.lecturas")
    /\ pc' = "fin"
    /\ UNCHANGED << num_registros, fecha_inicial, instante, registros, archivos, cursor,
                    tx, txRows, tabla, ref, fk, values, fallo, ensayo >>

(***************************************************************************)
(* The script.                                                             *)
(***************************************************************************)
SinServidor ==
    [sensor |-> NoExiste, microcontrolador |-> NoExiste, linea |-> NoExiste,
     fabrica |-> NoExiste]

Reposo ==
    /\ registros = << >>
    /\ archivos = {}
    /\ conn = "none"
    /\ cursor = "none"
    /\ tx = "idle"
    /\ txRows = << >>
    /\ tabla = << >>
    /\ ref = SinServidor
    /\ fk = FALSE
    /\ values = << >>
    /\ salida = << >>
    /\ llamadas = << >>
    /\ fallo = "none"

Init ==
    /\ pc = "generar"
    /\ num_registros \in 0..MaxRegistros
    /\ fecha_inicial \in Inicios
    /\ instante = fecha_inicial
    /\ Reposo
    /\ ensayo = [fn |-> "none"]

Next ==
    \/ GenerarIteracion
    \/ GenerarRetorno
    \/ ExportarExcel
    \/ ExportarFalla
    \/ Conectar
    \/ ConectarFalla
    \/ Validar
    \/ InsertarOk
    \/ InsertarFalla
    \/ Commit
    \/ CommitFalla
    \/ CerrarCursor
    \/ CerrarConn

Spec == Init /\ [][Next]_vars

(***************************************************************************)
(* clasificar_ppm on its own: every concentration of the range is an       *)
(* argument, the action applies the function.                              *)
(***************************************************************************)
InitClasificar ==
    /\ pc = "ensayo"
    /\ num_registros = 0
    /\ fecha_inicial = FECHA_INICIAL
    /\ instante = FECHA_INICIAL
    /\ Reposo
    /\ ensayo \in [fn : {"clasificar_ppm"}, ppm : (-NegCentesimas)..MaxCentesimas,
                   id : {0}]

Clasificar ==
    /\ pc = "ensayo"
    /\ ensayo.fn = "clasificar_ppm"
    /\ ensayo.id = 0
    /\ ensayo' = [ensayo EXCEPT !.id = clasificar_ppm(ensayo.ppm)]
    /\ UNCHANGED << pc, num_registros, fecha_inicial, instante, registros, archivos, conn,
                    cursor, tx, txRows, tabla, ref, fk, values, salida, llamadas, fallo >>

NextClasificar == Clasificar

SpecClasificar == InitClasificar /\ [][NextClasificar]_vars

(***************************************************************************)
(* generar_hash_integridad on its own: two rows are the arguments, the     *)
(* action hashes both.                                                     *)
(***************************************************************************)
InstantesHash ==
    { FECHA_INICIAL,
      [FECHA_INICIAL EXCEPT !.second = 10],
      [FECHA_INICIAL EXCEPT !.microsecond = 250],
      [FECHA_INICIAL EXCEPT !.day = 2] }

SensoresHash == { "A1S01", "A1S0", "B2S07" }

MicrosHash == { "A1M01", "B2M01" }

SorteosHash ==
    { [ppm |-> p, lat |-> 0, lon |-> 0, alt |-> 0, temp |-> t, hum |-> 400] :
        p \in {50, 100, 1100, 1234}, t \in {180, 350} }

FilasHash ==
    { RowInicial(i, s, m, ID_LINEA, ID_FABRICA, d) :
        i \in InstantesHash, s \in SensoresHash, m \in MicrosHash, d \in SorteosHash }

InitHash ==
    /\ pc = "ensayo"
    /\ num_registros = 0
    /\ fecha_inicial = FECHA_INICIAL
    /\ instante = FECHA_INICIAL
    /\ Reposo
    /\ ensayo \in [fn : {"generar_hash_integridad"}, a : FilasHash, b : FilasHash,
                   hecho : {FALSE}, ha : {""}, hb : {""}]

Hashear ==
    /\ pc = "ensayo"
    /\ ensayo.fn = "generar_hash_integridad"
    /\ ~ensayo.hecho
    /\ ensayo' = [ensayo EXCEPT !.hecho = TRUE,
                                !.ha = generar_hash_integridad(ensayo.a),
                                !.hb = generar_hash_integridad(ensayo.b)]
    /\ UNCHANGED << pc, num_registros, fecha_inicial, instante, registros, archivos, conn,
                    cursor, tx, txRows, tabla, ref, fk, values, salida, llamadas, fallo >>

NextHash == Hashear

SpecHash == InitHash /\ [][NextHash]_vars

(***************************************************************************)
(* Properties.                                                             *)
(***************************************************************************)
\* The tier the threshold table assigns to a concentration in hundredths:
\* (-inf, 0.5] 1, (0.5, 1] 2, (1, 10] 3, (10, 50] 4, (50, 500] 5, above 6.
Cotas == << 50, 100, 1000, 5000, 50000 >>

Nivel(v) ==
    IF v > Cotas[5] THEN 6
    ELSE CHOOSE t \in 1..5 : v <= Cotas[t] /\ (t > 1 => v > Cotas[t - 1])

Clasificado == ensayo.fn = "clasificar_ppm" /\ ensayo.id # 0

\* C1: clasificar_ppm returns a tier in 1..6 for every concentration,
\* negative ones included (tier 1), the tier of the threshold table; at the
\* named points 0.5 -> 1, 0.51 -> 2, 1.0 -> 2, 10.0 -> 3, 50.0 -> 4,
\* 500.0 -> 5, 500.01 -> 6.
C1_Clasificacion ==
    Clasificado =>
        /\ ensayo.id \in 1..6
        /\ ensayo.id = Nivel(ensayo.ppm)
        /\ ensayo.ppm < 0 => ensayo.id = 1
        /\ << ensayo.ppm, ensayo.id >> \notin
              ({50, 51, 100, 1000, 5000, 50000, 50001} \X (1..6))
                 \ { << 50, 1 >>, << 51, 2 >>, << 100, 2 >>, << 1000, 3 >>,
                     << 5000, 4 >>, << 50000, 5 >>, << 50001, 6 >> }

\* C1 witness: the function has been applied just above the last threshold
\* (500.01 ppm) and returned 6.
C1_Witness == Clasificado /\ ensayo.ppm = 50001 /\ ensayo.id = 6

Hasheado == ensayo.fn = "generar_hash_integridad" /\ ensayo.hecho

Cuatro(r) == << r.fecha, r.hora, r.id_sensor, r.ppm_benceno >>

Distintos(r1, r2) == Cardinality({k \in 1..4 : Cuatro(r1)[k] # Cuatro(r2)[k]})

\* C5: two rows equal on (fecha, hora, id_sensor, ppm_benceno) get the same
\* digest whatever their other fields are, and two rows that differ in
\* exactly one of the four get different digests.
C5_Hash ==
    Hasheado =>
        /\ Distintos(ensayo.a, ensayo.b) = 0 => ensayo.ha = ensayo.hb
        /\ Distintos(ensayo.a, ensayo.b) = 1 => ensayo.ha # ensayo.hb

\* C5 witness: both rows hashed, they differ in the sensor only among the
\* four fields, and in the microcontroller and the temperature besides.
C5_Witness ==
    /\ Hasheado
    /\ Distintos(ensayo.a, ensayo.b) = 1
    /\ ensayo.a.id_sensor # ensayo.b.id_sensor
    /\ ensayo.a.id_micro # ensayo.b.id_micro
    /\ ensayo.a.temperatura # ensayo.b.temperatura
    /\ ensayo.ha # ensayo.hb

(***************************************************************************)
(* Properties of the script.                                               *)
(***************************************************************************)
Cuenta(q, x) == Cardinality({k \in 1..Len(q) : q[k] = x})

Indice(q, x) == CHOOSE k \in 1..Len(q) : q[k] = x

\* The proleptic Gregorian ordinal of a date, and the second of its day.
RECURSIVE DiasAntesDeMes(_, _)
DiasAntesDeMes(y, m) ==
    IF m = 1 THEN 0 ELSE DiasAntesDeMes(y, m - 1) + DaysInMonth(y, m - 1)

Ordinal(d) ==
    LET y == d.year - 1
    IN  y * 365 + (y \div 4) - (y \div 100) + (y \div 400)
           + DiasAntesDeMes(d.year, d.month) + d.day

Segundo(t) == t.hour * 3600 + t.minute * 60 + t.second

FechaValida(d) ==
    /\ d.year \in 1..9999
    /\ d.month \in 1..12
    /\ d.day \in 1..DaysInMonth(d.year, d.month)

HoraValida(t) == t.hour \in 0..23 /\ t.minute \in 0..59 /\ t.second \in 0..59

\* Reading k (from 1) carries the date and time of fecha_inicial + 10 (k - 1) s.
EnSuInstante(k) ==
    LET r == registros[k]
        s == Segundo(fecha_inicial) + 10 * (k - 1)
    IN  /\ FechaValida(r.fecha)
        /\ HoraValida(r.hora)
        /\ Ordinal(r.fecha) = Ordinal(fecha_inicial) + (s \div 86400)
        /\ Segundo(r.hora) = s % 86400
        /\ r.hora.microsecond = fecha_inicial.microsecond

\* The last of the num_registros instants is no later than datetime.max.
Representables ==
    LET s == Segundo(fecha_inicial) + 10 * (num_registros - 1)
    IN  \/ num_registros = 0
        \/ Ordinal(fecha_inicial) + (s \div 86400)
              <= Ordinal([year |-> 9999, month |-> 12, day |-> 31])

\* C2: for every count and every starting timestamp (here: every one whose
\* readings all fall within the datetime range), the generator returns
\* exactly num_registros readings, reading i at start + i * 10 s.
C2_DiezSegundos ==
    (pc # "generar" /\ Representables) =>
        /\ fallo # "generar"
        /\ Len(registros) = num_registros
        /\ \A k \in 1..Len(registros) : EnSuInstante(k)

\* The rows of a spreadsheet, of the INSERT and of the table, read by column
\* name.
Campo(fila, columnas, nombre) == fila[Indice(columnas, nombre)]

FilaConsistente(fila, columnas) ==
    Campo(fila, columnas, "id_clasificacion") = Nivel(Campo(fila, columnas, "ppm_benceno"))

\* C3: in every reading generated, every spreadsheet row and every row sent
\* to or stored in the database, id_clasificacion is the tier of that row's
\* ppm_benceno.
C3_ClasificacionConsistente ==
    /\ \A k \in 1..Len(registros) :
          registros[k].id_clasificacion = Nivel(registros[k].ppm_benceno)
    /\ \A a \in archivos : \A k \in 1..Len(a.filas) : FilaConsistente(a.filas[k], a.columnas)
    /\ \A k \in 1..Len(values) : FilaConsistente(values[k], ColumnasInsert)
    /\ \A k \in 1..Len(txRows) : FilaConsistente(txRows[k], ColumnasInsert)
    /\ \A k \in 1..Len(tabla) : FilaConsistente(tabla[k], ColumnasInsert)

\* C3 witness: the script has finished, the spreadsheet and the table hold
\* three rows, of tiers 1, 2 and 5 among them.
C3_Witness ==
    /\ pc = "fin"
    /\ Len(tabla) = 3
    /\ \E a \in archivos : Len(a.filas) = 3
    /\ {Campo(tabla[k], ColumnasInsert, "id_clasificacion") : k \in 1..3} = {1, 2, 5}

\* C4: every reading of the list carries the digest of its own fecha, hora,
\* id_sensor and ppm_benceno as they finally are, never the placeholder.
C4_HashDeLosCamposFinales ==
    \A k \in 1..Len(registros) :
        /\ registros[k].hash_integridad # ""
        /\ registros[k].hash_integridad = generar_hash_integridad(registros[k])

\* C4 witness: the generator has returned two or more readings, the first
\* two with different concentrations and different digests.
C4_Witness ==
    /\ pc = "excel"
    /\ Len(registros) >= 2
    /\ registros[1].ppm_benceno # registros[2].ppm_benceno
    /\ registros[1].hash_integridad # registros[2].hash_integridad

\* The try block has run (it makes its first SELECT whatever happens next).
Validado == "execute SELECT sensor" \in Range(llamadas)

\* Line 256 has been reached.
InsertIntentado == "execute_values" \in Range(llamadas)

\* The warning expected for table k: it names the first value fetched, or
\* NINGUNO when nothing was fetched.
AvisoEsperado(k) ==
    LET f == ref[Tablas[k]].filas
    IN  "ADVERTENCIA: " \o Configurado[k] \o " no existe en la tabla " \o Tablas[k]
            \o ". Usando el primero disponible: "
            \o (IF Len(f) = 0 THEN "NINGUNO" ELSE f[1])

\* The identifier of table k was not among the (at most 10) values fetched.
Ausente(k) ==
    LET f == ref[Tablas[k]].filas
    IN  \A j \in 1..Len(f) : j <= 10 => f[j] # Configurado[k]

\* Every reading, and every row handed to the bulk insert, carries the four
\* configured identifiers.
IdentificadoresIntactos ==
    /\ \A j \in 1..Len(registros) :
          << registros[j].id_sensor, registros[j].id_micro, registros[j].id_linea,
             registros[j].id_fabrica >> = Configurado
    /\ \A j \in 1..Len(values), k \in 1..4 :
          Campo(values[j], ColumnasInsert, "id_" \o (IF k = 2 THEN "micro" ELSE Tablas[k]))
             = Configurado[k]

\* C6 as stated: whenever a table was fetched and the configured identifier
\* is not among the values fetched, the warning is printed, and the rows
\* keep the configured identifiers.
C6_AvisoSiempre ==
    Validado =>
        /\ \A k \in 1..4 :
              (k < PrimeraFalla(ref) /\ Ausente(k)) => AvisoEsperado(k) \in Range(salida)
        /\ IdentificadoresIntactos

\* C6 amended: when all four reference queries succeed and a configured
\* identifier is not among the values fetched from its table, the warning
\* naming the first fetched value (or NINGUNO) is printed; in every case the
\* readings and the rows handed to the bulk insert keep the configured
\* identifiers.
C6_AvisoSinSustituir ==
    Validado =>
        /\ PrimeraFalla(ref) = 5 =>
              \A k \in 1..4 : Ausente(k) => AvisoEsperado(k) \in Range(salida)
        /\ IdentificadoresIntactos

\* C6 witness: the sensor is the eleventh row of its table, so not among the
\* ten fetched; the warning names S01; the insert has succeeded with rows
\* that carry the configured sensor.
C6_Witness ==
    /\ pc = "commit"
    /\ Len(ref.sensor.filas) = 11
    /\ Ausente(1)
    /\ AvisoEsperado(1) \in Range(salida)
    /\ Len(values) >= 2
    /\ \A j \in 1..Len(values) : values[j][3] = ID_SENSOR

\* C7: when a validation query fails, the failure is printed with the
\* notice that the insertion goes on, no exception leaves the try block,
\* and the next database call is the bulk insert, on the connection and
\* cursor still open.
C7_ValidacionNoImpide ==
    (Validado /\ PrimeraFalla(ref) < 5) =>
        LET n == PrimeraFalla(ref)
        IN  /\ fallo # "validar"
            /\ \E k \in 1..(Len(salida) - 1) :
                  /\ salida[k] = "Error al consultar tablas relacionadas: no existe la relación "
                                    \o Tablas[n]
                  /\ salida[k + 1] = "Continuando con la inserción...\n"
            /\ pc = "insertar" => conn = "open" /\ cursor = "open"
            /\ pc # "insertar" =>
                  /\ Len(llamadas) >= n + 3
                  /\ llamadas[n + 3] = "execute_values"
                  /\ Len(values) = Len(registros)

\* C7 witness: the query on fabrica (the fourth) failed after three that
\* succeeded, and the bulk insert of two or more rows was then attempted.
C7_Witness ==
    /\ Validado
    /\ PrimeraFalla(ref) = 4
    /\ InsertIntentado
    /\ Len(values) >= 2

\* Row k of the table is reading k, column by column.
EsLectura(fila, r) ==
    \A j \in 1..Len(ColumnasInsert) : fila[j] = r[ColumnasInsert[j]]

\* C8: the table holds none of the readings or all of them, in order; after
\* a failed insert nothing is committed; the insert is tried at most once.
C8_TodoONada ==
    /\ \/ tabla = << >>
       \/ /\ Len(tabla) = num_registros
          /\ Len(registros) = num_registros
          /\ \A k \in 1..Len(tabla) : EsLectura(tabla[k], registros[k])
    /\ fallo = "insertar" => tabla = << >> /\ "commit" \notin Range(llamadas)
    /\ Cuenta(llamadas, "execute_values") <= 1

\* C8 witness: foreign keys are declared, the sensor is not in its table,
\* the insert of two or more rows has failed and the table is empty.
C8_Witness ==
    /\ pc = "abortado"
    /\ fallo = "insertar"
    /\ fk
    /\ ID_SENSOR \notin Range(ref.sensor.filas)
    /\ Len(values) >= 2
    /\ tabla = << >>

\* C9: at most one commit, right after the insert; a finished script has
\* closed the cursor and then the connection; a script ended by the insert
\* or the commit has closed neither.
C9_Recursos ==
    /\ Cuenta(llamadas, "commit") <= 1
    /\ \A k \in 1..Len(llamadas) :
          llamadas[k] = "commit" => k > 1 /\ llamadas[k - 1] = "execute_values"
    /\ conn = "closed" => cursor = "closed"
    /\ pc = "fin" =>
          /\ conn = "closed"
          /\ SubSeq(llamadas, Len(llamadas) - 3, Len(llamadas))
                = << "execute_values", "commit", "cursor.close", "conn.close" >>
    /\ (pc = "abortado" /\ fallo \in {"insertar", "commit"}) =>
          /\ conn = "open"
          /\ cursor = "open"
          /\ Range(llamadas) \cap {"cursor.close", "conn.close"} = {}

\* C9 witness: the script has ended on the exception of the insert, after
\* which no call was made, with the cursor and the connection open.
C9_Witness ==
    /\ pc = "abortado"
    /\ fallo = "insertar"
    /\ llamadas[Len(llamadas)] = "execute_values"
    /\ conn = "open"
    /\ cursor = "open"

\* The spreadsheet is on disk with one row per reading.
HojaEscrita ==
    \E a \in archivos :
        /\ a.nombre = "lecturas-sensor_A1S01.xlsx"
        /\ Len(a.filas) = num_registros
        /\ Len(registros) = num_registros
        /\ \A k \in 1..Len(a.filas), j \in 1..Len(a.columnas) :
              a.filas[k][j] = registros[k][a.columnas[j]]
        /\ num_registros > 0 => Len(a.columnas) = 18

\* C10: nothing is exported before the generator has returned, no database
\* call is made before the spreadsheet is written, the connection is tried
\* once, and a script ended by the connection or the insert leaves the
\* spreadsheet complete and the table empty.
C10_Fases ==
    /\ archivos # {} => Len(registros) = num_registros /\ fallo # "generar"
    /\ llamadas # << >> => HojaEscrita
    /\ Cuenta(llamadas, "connect") <= 1
    /\ (pc = "abortado" /\ fallo \in {"conectar", "insertar"}) =>
          HojaEscrita /\ tabla = << >>

\* C10 witness: the connection attempt has failed, the spreadsheet holds the
\* two or more readings, the table none.
C10_Witness ==
    /\ pc = "abortado"
    /\ fallo = "conectar"
    /\ num_registros >= 2
    /\ HojaEscrita
    /\ tabla = << >>

====
